---- MODULE Spec2Model ----
(***************************************************************************)
(* A model of the MainPanel component of GenWeb-2                          *)
(* (src/frontend/src/components/MainPanel.jsx): the extraction of the      *)
(* html/css/js code blocks from the generation backend's response, the     *)
(* request round trip of handleSubmit, and the preview document that       *)
(* renderPreview hands to an iframe.                                       *)
(*                                                                         *)
(* A JavaScript string is a sequence of one-character strings.  The        *)
(* preview document is a sequence whose fixed template parts are kept as   *)
(* whole fragments and whose interpolated artifacts are kept character by  *)
(* character; the document is the concatenation of its elements.           *)
(***************************************************************************)
EXTENDS Integers, Sequences, FiniteSets, TLC

\* ------------------------------------------------------------------ bounds

\* Number of pieces a response text is put together from (SpecExtract).
MaxPieces == 4
\* Number of pieces one artifact is put together from (SpecRoundTrip).
MaxArtPieces == 2
\* Number of segments a response of the backend is put together from (Spec).
MaxRespSegs == 2
\* Number of requests the model lets be in flight at once (Spec).
MaxRequests == 2

\* ----------------------------------------------------------- JavaScript values

\* The grave accent (U+0060), which a TLA+ string literal cannot hold.
BT == "U+0060"

\* The characters that occur in the modelled strings.
Chars == {BT, "\n", " ", "h", "t", "m", "l", "c", "s", "j", "x", "<", "a", ">"}

\* JavaScript's undefined: the value of an absent property, of ?. on null.
Undefined == <<"undefined">>

\* A value that is neither a string nor absent (a number, an object).
NotAString == <<"number">>

\* String.prototype.match's null: no match.
NoMatch == <<>>

\* The TypeError a method call on undefined or on a non-string raises.
TypeError == [error |-> "TypeError"]

IsString(v) == v \in Seq(Chars)

Min(S) == CHOOSE m \in S : \A n \in S : m <= n

Max(S) == CHOOSE m \in S : \A n \in S : m >= n

\* The strings put together from at most n pieces of P.
RECURSIVE Concats(_, _)
Concats(P, n) ==
    IF n = 0 THEN {<<>>}
    ELSE LET shorter == Concats(P, n - 1)
         IN  shorter \cup {s \o p : s \in shorter, p \in P}

\* ------------------------------------------------------------ extractCodeBlocks

\* The literal prefixes of the three regular expressions and the closing fence.
HtmlOpen == <<BT, BT, BT, "h", "t", "m", "l", "\n">>

CssOpen == <<BT, BT, BT, "c", "s", "s", "\n">>

\* The mutant of JsOpen: the line break after the tag left out of the pattern.
JsOpenNoNewline == <<BT, BT, BT, "j", "s">>

JsOpen == <<BT, BT, BT, "j", "s", "\n">>

Fence == <<BT, BT, BT>>

\* The literal pat stands in text at index i (1-based).
OccursAt(pat, text, i) ==
    /\ i >= 1
    /\ i + Len(pat) - 1 <= Len(text)
    /\ SubSeq(text, i, i + Len(pat) - 1) = pat

\* The mutant of LazyLen: a greedy group ([\s\S]*) takes the longest capture.
GreedyLen(text, from) ==
    LET ks == {k \in 0..(Len(text) + 1 - from) : OccursAt(Fence, text, from + k)}
    IN  IF ks = {} THEN -1 ELSE Max(ks)

\* ([\s\S]*?) and the fence tried at index from: the lazy group grows one character at a
\* time until the fence follows; the length captured, or -1 when none does.
LazyLen(text, from) ==
    LET ks == {k \in 0..(Len(text) + 1 - from) : OccursAt(Fence, text, from + k)}
    IN  IF ks = {} THEN -1 ELSE Min(ks)

\* text.match(/<open>([\s\S]*?)<fence>/): the leftmost index at which the whole
\* pattern matches; the result array <<match, group 1>>, or NoMatch.
RegexMatch(open, text) ==
    LET starts == {i \in 1..Len(text) :
                      /\ OccursAt(open, text, i)
                      /\ LazyLen(text, i + Len(open)) >= 0}
    IN  IF starts = {} THEN NoMatch
        ELSE LET i    == Min(starts)
                 from == i + Len(open)
                 k    == LazyLen(text, from)
             IN  <<SubSeq(text, i, from + k + 2), SubSeq(text, from, from + k - 1)>>

\* m?.[1]
Group1(m) == IF m = NoMatch THEN Undefined ELSE m[2]

\* The mutant of OrEmpty: the || "" fallback left out.
OrEmptyDropped(v) == v

\* v || "": undefined and the empty string are falsy.
OrEmpty(v) == IF v = Undefined \/ v = <<>> THEN <<>> ELSE v

\* extractCodeBlocks(text); text.match raises a TypeError unless text is a string.
extractCodeBlocks(text) ==
    IF ~IsString(text) THEN TypeError
    ELSE [html |-> OrEmpty(Group1(RegexMatch(HtmlOpen, text))),
          css  |-> OrEmpty(Group1(RegexMatch(CssOpen, text))),
          js   |-> OrEmpty(Group1(RegexMatch(JsOpen, text)))]

\* ------------------------------------------------------------------ MainPanel

VARIABLES
    prompt,           \* useState(""): the input's text
    lastPrompt,       \* useState(""): the last submitted prompt
    code,             \* useState({ html: "", css: "", js: "" })
    activeTab,        \* useState("Website")
    showSplitLayout,  \* useState(false)
    loading,          \* useState(false)
    requests,         \* the POSTs to /api/openai/generate that have not settled
    res,              \* how the last settled request ended, NoResult while none has
    extractArg,       \* history: the argument of the round's extractCodeBlocks call
    codeBefore        \* history: the artifact set held when the round was submitted

uiVars == <<prompt, lastPrompt, code, activeTab, showSplitLayout, loading,
            requests, res, extractArg, codeBefore>>

\* The preview's browsing context and the host's storage.
VARIABLES
    framePhase,     \* none | parsing | markup | behavior | scripts | loaded
    anchors,        \* the a elements of the preview document, by state
    onload,         \* the preview window's onload handler: null | behavior | linkScript
    loadListeners,  \* the listeners of the preview window's load event, in order
    hostStorage,    \* the keys of the host origin's localStorage
    hostReads,      \* the host localStorage keys script of the preview has read
    logoutTimer,    \* the setTimeout of handleLogout is pending
    route           \* the router's location: /home shows the panel

docVars == <<framePhase, anchors, onload, loadListeners>>

hostVars == <<hostStorage, hostReads, logoutTimer, route>>

frameVars == <<docVars, hostVars>>

\* The extractor on its own.
VARIABLES
    text,      \* the response text handed to extractCodeBlocks
    arts,      \* the artifact set the text was written from (SpecRoundTrip)
    result     \* what extractCodeBlocks returned, NotCalled before the call

pureVars == <<text, arts, result>>

vars == <<uiVars, frameVars, pureVars>>

NoResult == [status |-> "none"]

NoCall == <<"no call">>

WhiteSpace == {" ", "\n"}

\* String.prototype.trim
Trim(s) ==
    LET inked == {i \in 1..Len(s) : s[i] \notin WhiteSpace}
    IN  IF inked = {} THEN <<>> ELSE SubSeq(s, Min(inked), Max(inked))

\* What the user may type into the input.
Prompts == {<<>>, <<" ">>, <<"a">>, <<" ", "x", " ">>}

\* An a element of the markup.
Anchor == <<"<", "a", ">">>

\* A response with a link in its markup, a style and a behavior.
FullResponse ==
    HtmlOpen \o Anchor \o <<"\n">> \o Fence \o <<"\n">>
    \o CssOpen \o <<"c", "\n">> \o Fence \o <<"\n">>
    \o JsOpen \o <<"j", "\n">> \o Fence

\* The segments the backend's response texts are put together from: a full
\* response, a markup block, a style block, an open marker left unclosed, and
\* a character of prose.
Segments ==
    {FullResponse, HtmlOpen \o <<"x">> \o Fence, CssOpen \o <<"x">> \o Fence,
     HtmlOpen, <<"x">>}

Responses == Concats(Segments, MaxRespSegs)

\* res.data of a fulfilled request: null, or an object whose code property is a
\* string, is absent, or is not a string.
NullData == [isNull |-> TRUE]

Payloads == {NullData} \cup {[code |-> v] : v \in Responses \cup {Undefined, NotAString}}

\* How a request settles: axios.post rejects, or fulfils with res.data.
Outcomes == {[status |-> "rejected"]} \cup {[status |-> "fulfilled", data |-> d] : d \in Payloads}

UIInit ==
    /\ prompt = <<>>
    /\ lastPrompt = <<>>
    /\ code = [html |-> <<>>, css |-> <<>>, js |-> <<>>]
    /\ activeTab = "Website"
    /\ showSplitLayout = FALSE
    /\ loading = FALSE
    /\ requests = <<>>
    /\ res = NoResult
    /\ extractArg = NoCall
    /\ codeBefore = [html |-> <<>>, css |-> <<>>, js |-> <<>>]

\* -------------------------------------------------------------- renderPreview

DocOpen == "<!DOCTYPE html>\n            <html>\n              <head>\n                <meta charset=\"UTF-8\" />\n                <style>"

StyleClose == "</style>\n              </head>\n              <body>\n                "

ScriptOpen == "\n                <script>"

ScriptClose == "</script>\n                "

linkScript == "\n        <script>\n          window.onload = function () {\n            const anchors = document.querySelectorAll('a');\n            anchors.forEach(a => {\n              a.setAttribute('target', '_blank');\n              a.setAttribute('rel', 'noopener noreferrer');\n            });\n          }\n        </script>\n      "

DocClose == "\n              </body>\n            </html>"

\* The mutant of SrcDoc: the behavior script placed after the link script.
SrcDocScriptLast(c) ==
    <<DocOpen>> \o c.css \o <<StyleClose>> \o c.html
    \o <<ScriptClose, linkScript, ScriptOpen>> \o c.js \o <<ScriptClose, DocClose>>

\* The template literal handed to the iframe's srcDoc.
SrcDoc(c) ==
    <<DocOpen>> \o c.css \o <<StyleClose>> \o c.html \o <<ScriptOpen>> \o c.js
    \o <<ScriptClose, linkScript, DocClose>>

\* activeTab.toLowerCase() for the three code tabs
Slot(tab) == IF tab = "HTML" THEN "html" ELSE IF tab = "CSS" THEN "css" ELSE "js"

\* The attributes of the iframe element.
IframeAttrs == {"title", "className", "style", "srcDoc"}

\* renderPreview(): a <pre> for a code tab, the iframe for Preview, or nothing.
renderPreview ==
    IF activeTab \in {"HTML", "CSS", "JS"}
    THEN [tag |-> "pre", text |-> code[Slot(activeTab)]]
    ELSE IF activeTab = "Preview"
    THEN [tag |-> "iframe", attrs |-> IframeAttrs, srcDoc |-> SrcDoc(code)]
    ELSE [tag |-> "none"]

\* The preview box of the split layout; the first layout has none.
PreviewBox == IF showSplitLayout THEN renderPreview ELSE [tag |-> "none"]

NoAnchors == [plain |-> 0, rewritten |-> 0]

NoDoc == <<>>

\* The srcDoc of the iframe a render shows, NoDoc when it shows none.
ShownDoc(split, tab, c) == IF split /\ tab = "Preview" THEN SrcDoc(c) ELSE NoDoc

\* The render after a state change is committed: an iframe whose srcDoc is
\* unchanged stays as it is; otherwise the old document goes and, when the
\* new render shows an iframe, the new document starts to load.
Rerender ==
    LET after == ShownDoc(showSplitLayout', activeTab', code')
    IN  IF after = ShownDoc(showSplitLayout, activeTab, code)
        THEN UNCHANGED docVars
        ELSE /\ framePhase' = IF after = NoDoc THEN "none" ELSE "parsing"
             /\ anchors' = NoAnchors
             /\ onload' = "null"
             /\ loadListeners' = <<>>

\* ------------------------------------------------------------ the handlers

\* disabled={loading} of the prompt input
InputDisabled == loading

\* disabled={!prompt.trim() || loading} of the Generate button
ButtonDisabled == Trim(prompt) = <<>> \/ loading

\* onChange of the prompt input: setPrompt(e.target.value)
SetPrompt(p) ==
    /\ route = "/home"
    /\ ~InputDisabled
    /\ p # prompt
    /\ prompt' = p
    /\ UNCHANGED <<lastPrompt, code, activeTab, showSplitLayout, loading,
                   requests, res, extractArg, codeBefore>>
    /\ UNCHANGED <<frameVars, pureVars>>

\* The mutant of SubmitRefused: the loading test left out of the guard.
SubmitRefusedBlankOnly == Trim(prompt) = <<>>

\* if (!prompt.trim() || loading) return;
SubmitRefused == Trim(prompt) = <<>> \/ loading

\* handleSubmit up to its await: called from the input's Enter key and from the
\* Generate button.  The handler carries its own guard, so the model admits a
\* call in every state; at most MaxRequests requests are kept in flight.
HandleSubmit ==
    /\ route = "/home"
    /\ Len(requests) < MaxRequests
    /\ IF SubmitRefused
       THEN UNCHANGED <<prompt, lastPrompt, code, activeTab, showSplitLayout,
                        loading, requests, res, extractArg, codeBefore>>
       ELSE /\ showSplitLayout' = TRUE
            /\ loading' = TRUE
            /\ lastPrompt' = prompt
            /\ requests' = Append(requests, [prompt |-> prompt])
            /\ res' = NoResult
            /\ extractArg' = NoCall
            /\ codeBefore' = code
            /\ UNCHANGED <<prompt, code, activeTab>>
    /\ Rerender
    /\ UNCHANGED <<hostVars, pureVars>>

\* res.data.code: reading a property of null raises a TypeError.
CodeOf(data) == IF data = NullData THEN TypeError ELSE data.code

\* The try block after the await: the artifact set to store, or the error that
\* sends control to the catch block.
TryBlock(o) ==
    IF o.status = "rejected" THEN [error |-> "rejected"]
    ELSE IF o.data = NullData THEN CodeOf(o.data)
    ELSE extractCodeBlocks(CodeOf(o.data))

\* The mutant of StoredCode: the new blocks merged over the old set, an empty
\* block keeping the old slot.
StoredCodeMerged(old, blocks) ==
    [c \in DOMAIN old |-> IF blocks[c] = <<>> THEN old[c] ELSE blocks[c]]

\* setCode(codeBlocks): the state is replaced by the new record.
StoredCode(old, blocks) == blocks

\* The mutant of LoadingAfterSettle: setLoading(false) inside the try block only.
LoadingAfterSettleOnSuccess(failed) == failed

\* setLoading(false) after the try/catch, whichever way it ended.
LoadingAfterSettle(failed) == FALSE

\* The sequence s without its element i.
Remove(s, i) == SubSeq(s, 1, i - 1) \o SubSeq(s, i + 1, Len(s))

\* handleSubmit from the await on: the request at place r settles with outcome o.
Settle(r, o) ==
    LET got    == TryBlock(o)
        failed == "error" \in DOMAIN got
    IN  /\ route = "/home"
        /\ r \in 1..Len(requests)
        /\ requests' = Remove(requests, r)
        /\ res' = [status |-> o.status, prompt |-> requests[r].prompt, failed |-> failed,
                   data |-> IF o.status = "fulfilled" THEN o.data ELSE NullData]
        /\ extractArg' = IF o.status = "fulfilled" /\ o.data # NullData
                         THEN o.data.code ELSE NoCall
        /\ code' = IF failed THEN code ELSE StoredCode(code, got)
        /\ loading' = LoadingAfterSettle(failed)
        /\ prompt' = <<>>
        /\ UNCHANGED <<lastPrompt, activeTab, showSplitLayout, codeBefore>>
        /\ Rerender
        /\ UNCHANGED <<hostVars, pureVars>>

Tabs == {"HTML", "CSS", "JS", "Preview"}

\* onClick of a tab button, which the split layout alone shows.
SetActiveTab(tab) ==
    /\ route = "/home"
    /\ showSplitLayout
    /\ tab # activeTab
    /\ activeTab' = tab
    /\ UNCHANGED <<prompt, lastPrompt, code, showSplitLayout, loading,
                   requests, res, extractArg, codeBefore>>
    /\ Rerender
    /\ UNCHANGED <<hostVars, pureVars>>

\* ------------------------------------------- the preview's browsing context

FrameIdle ==
    /\ framePhase = "none"
    /\ anchors = NoAnchors
    /\ onload = "null"
    /\ loadListeners = <<>>
    /\ hostStorage = {"token", "loggedInUser"}
    /\ hostReads = {}
    /\ logoutTimer = FALSE
    /\ route = "/home"

\* An iframe without a sandbox attribute: its srcdoc document has the origin
\* of the document that embeds it, and its scripts run.
FrameOrigin == IF "sandbox" \in IframeAttrs THEN "opaque" ELSE "host"

\* What the behavior artifact, an arbitrary script, does when it runs.
Effects == {"nothing", "appendLink", "setOnload", "listenLoad",
            "setOnloadAndListen", "readHostStorage"}

EffectsOf(js) == IF js = <<>> THEN {"nothing"} ELSE Effects

\* The a elements the parser makes of a markup artifact.
CountAnchors(html) == Cardinality({i \in 1..Len(html) : OccursAt(Anchor, html, i)})

\* The body's markup is parsed: ${code.html}
ParseMarkup ==
    /\ framePhase = "parsing"
    /\ framePhase' = "markup"
    /\ anchors' = [plain |-> CountAnchors(code.html), rewritten |-> 0]
    /\ UNCHANGED <<onload, loadListeners, hostStorage, hostReads, logoutTimer, route>>
    /\ UNCHANGED <<uiVars, pureVars>>

\* An event handler attribute's listener is registered when the attribute is
\* first set, and keeps its place when the attribute is set again.
WithHandler(ls) == IF \E i \in 1..Len(ls) : ls[i] = "handler" THEN ls ELSE Append(ls, "handler")

\* <script>${code.js}</script> runs, with effect e.
RunBehavior(e) ==
    /\ framePhase = "markup"
    /\ e \in EffectsOf(code.js)
    /\ framePhase' = "behavior"
    /\ anchors' = IF e = "appendLink"
                  THEN [anchors EXCEPT !.plain = @ + 1] ELSE anchors
    /\ onload' = IF e \in {"setOnload", "setOnloadAndListen"} THEN "behavior" ELSE onload
    /\ loadListeners' =
          CASE e = "setOnload" -> WithHandler(loadListeners)
            [] e = "listenLoad" -> Append(loadListeners, "custom")
            [] e = "setOnloadAndListen" -> Append(WithHandler(loadListeners), "custom")
            [] OTHER -> loadListeners
    /\ hostReads' = IF e = "readHostStorage" /\ FrameOrigin = "host"
                    THEN hostReads \cup hostStorage ELSE hostReads
    /\ UNCHANGED <<hostStorage, logoutTimer, route>>
    /\ UNCHANGED <<uiVars, pureVars>>

\* The link script runs: window.onload = function () { ... }
RunLinkScript ==
    /\ framePhase = "behavior"
    /\ framePhase' = "scripts"
    /\ onload' = "linkScript"
    /\ loadListeners' = WithHandler(loadListeners)
    /\ UNCHANGED <<anchors, hostStorage, hostReads, logoutTimer, route>>
    /\ UNCHANGED <<uiVars, pureVars>>

\* One listener of the load event runs: the onload handler (the link script's
\* sets target and rel on every a element) or the behavior artifact's own
\* listener, which adds an a element.
RunListener(l, as) ==
    IF l = "handler"
    THEN IF onload = "linkScript"
         THEN [plain |-> 0, rewritten |-> as.plain + as.rewritten]
         ELSE as
    ELSE [as EXCEPT !.plain = @ + 1]

RECURSIVE RunListeners(_, _)
RunListeners(ls, as) ==
    IF ls = <<>> THEN as ELSE RunListeners(Tail(ls), RunListener(Head(ls), as))

\* The document has finished loading: the load event is dispatched.
FireLoad ==
    /\ framePhase = "scripts"
    /\ framePhase' = "loaded"
    /\ anchors' = RunListeners(loadListeners, anchors)
    /\ UNCHANGED <<onload, loadListeners, hostStorage, hostReads, logoutTimer, route>>
    /\ UNCHANGED <<uiVars, pureVars>>

\* handleLogout: the two localStorage.removeItem calls and the setTimeout.
HandleLogout ==
    /\ route = "/home"
    /\ hostStorage' = hostStorage \ {"token", "loggedInUser"}
    /\ logoutTimer' = TRUE
    /\ UNCHANGED <<docVars, hostReads, route>>
    /\ UNCHANGED <<uiVars, pureVars>>

\* setTimeout(() => navigate("/login"), 1000): the panel is unmounted, and its
\* iframe with it; what the panel's handlers set afterwards is lost.
NavigateToLogin ==
    /\ logoutTimer
    /\ logoutTimer' = FALSE
    /\ route' = "/login"
    /\ framePhase' = "none"
    /\ anchors' = NoAnchors
    /\ onload' = "null"
    /\ loadListeners' = <<>>
    /\ UNCHANGED <<hostStorage, hostReads>>
    /\ UNCHANGED <<uiVars, pureVars>>

NotCalled == [called |-> FALSE]

NoArts == [given |-> FALSE]

Categories == {"html", "css", "js"}

OpenOf(c) == IF c = "html" THEN HtmlOpen ELSE IF c = "css" THEN CssOpen ELSE JsOpen

\* A body with surrounding white space and its closing fence.
SpacedBody == <<" ", "x", "\n">> \o Fence

\* The pieces response texts are put together from: the markers, a lone grave
\* accent, a character, and two bodies with their closing fence.
Pieces == {HtmlOpen, CssOpen, JsOpen, Fence, <<BT>>, <<"x">>, SpacedBody, <<"x">> \o Fence}

Texts == Concats(Pieces, MaxPieces)

\* The pieces an artifact is put together from.
ArtPieces == {<<BT>>, <<"x", "\n">>, Fence}

ArtStrings == Concats(ArtPieces, MaxArtPieces)

ArtSets == [html : ArtStrings, css : ArtStrings, js : ArtStrings]

\* The canonical response text of an artifact set: the three fenced segments.
Canonical(a) ==
    <<BT, BT, BT, "h", "t", "m", "l", "\n">> \o a.html \o <<BT, BT, BT>>
    \o <<BT, BT, BT, "c", "s", "s", "\n">> \o a.css \o <<BT, BT, BT>>
    \o <<BT, BT, BT, "j", "s", "\n">> \o a.js \o <<BT, BT, BT>>

PureIdle ==
    /\ text = <<>>
    /\ arts = NoArts
    /\ result = NotCalled

InitExtract ==
    /\ text \in Texts
    /\ arts = NoArts
    /\ result = NotCalled
    /\ UIInit
    /\ FrameIdle

InitRoundTrip ==
    /\ arts \in ArtSets
    /\ text = Canonical(arts)
    /\ result = NotCalled
    /\ UIInit
    /\ FrameIdle

\* One call of extractCodeBlocks on a string.
ExtractStep ==
    /\ result = NotCalled
    /\ result' = extractCodeBlocks(text)
    /\ UNCHANGED <<text, arts>>
    /\ UNCHANGED <<uiVars, frameVars>>

SpecExtract == InitExtract /\ [][ExtractStep]_vars

SpecRoundTrip == InitRoundTrip /\ [][ExtractStep]_vars

\* ------------------------------------------------------- the panel as a whole

Init == UIInit /\ FrameIdle /\ PureIdle

Next ==
    \/ \E p \in Prompts : SetPrompt(p)
    \/ HandleSubmit
    \/ \E r \in 1..Len(requests) : \E o \in Outcomes : Settle(r, o)
    \/ \E tab \in Tabs : SetActiveTab(tab)
    \/ HandleLogout
    \/ NavigateToLogin

Spec == Init /\ [][Next]_vars

\* ------------------------------------------------ the preview, once it is shown

\* The panel after one round whose response was t, the Preview tab clicked.
InitPreview ==
    /\ \E t \in Responses :
          /\ code = extractCodeBlocks(t)
          /\ res = [status |-> "fulfilled", prompt |-> <<"a">>, failed |-> FALSE,
                    data |-> [code |-> t]]
          /\ extractArg = t
    /\ prompt = <<>>
    /\ lastPrompt = <<"a">>
    /\ activeTab = "Preview"
    /\ showSplitLayout = TRUE
    /\ loading = FALSE
    /\ requests = <<>>
    /\ codeBefore = [html |-> <<>>, css |-> <<>>, js |-> <<>>]
    /\ framePhase = "parsing"
    /\ anchors = NoAnchors
    /\ onload = "null"
    /\ loadListeners = <<>>
    /\ hostStorage = {"token", "loggedInUser"}
    /\ hostReads = {}
    /\ logoutTimer = FALSE
    /\ route = "/home"
    /\ PureIdle

NextPreview ==
    \/ ParseMarkup
    \/ \E e \in Effects : RunBehavior(e)
    \/ RunLinkScript
    \/ FireLoad
    \/ HandleLogout
    \/ NavigateToLogin

SpecPreview == InitPreview /\ [][NextPreview]_vars

\* ---------------------------------------------- what the claims speak about

\* The indices at which a literal stands in a text.
Occurrences(pat, t) == {i \in 1..Len(t) : OccursAt(pat, t, i)}

\* Category c has a fenced segment: its open marker, and a fence after it.
SegmentPresent(c, t) ==
    \E i \in Occurrences(OpenOf(c), t) :
        \E j \in Occurrences(Fence, t) : j >= i + Len(OpenOf(c))

\* The characters between the first open marker of c and the first fence after it.
FirstSegment(c, t) ==
    LET from  == Min(Occurrences(OpenOf(c), t)) + Len(OpenOf(c))
        close == Min({j \in Occurrences(Fence, t) : j >= from})
    IN  SubSeq(t, from, close - 1)

IsArtifactSet(r) ==
    /\ DOMAIN r = Categories
    /\ \A c \in Categories : IsString(r[c])

\* C1: extractCodeBlocks is total on strings and returns three strings; a
\* category without a fenced segment yields the empty string whatever the
\* other categories hold, and the others yield their own first segment.
C1_TotalAndIndependent ==
    result # NotCalled =>
        /\ IsArtifactSet(result)
        /\ \A c \in Categories :
              ~SegmentPresent(c, text) =>
                  /\ result[c] = <<>>
                  /\ \A d \in Categories \ {c} :
                        SegmentPresent(d, text) => result[d] = FirstSegment(d, text)

\* A text without html segment whose css segment was captured.
C1_Witness ==
    /\ result # NotCalled
    /\ Occurrences(HtmlOpen, text) = {}
    /\ result.html = <<>>
    /\ SegmentPresent("css", text)
    /\ result.css # <<>>
    /\ result.js = <<>>

\* C2: a category whose open marker is followed by a fence yields exactly the
\* characters between the first open marker and the first fence after it,
\* untrimmed; later segments of the category are ignored.
C2_FirstMatchVerbatim ==
    result # NotCalled =>
        \A c \in Categories :
            SegmentPresent(c, text) => result[c] = FirstSegment(c, text)

\* Two html segments: the first one, with its white space, is the slot.
C2_Witness ==
    /\ result # NotCalled
    /\ Cardinality(Occurrences(HtmlOpen, text)) = 2
    /\ Cardinality(Occurrences(Fence, text)) >= 4
    /\ result.html = <<" ", "x", "\n">>

\* An artifact the fence format can carry: it holds no fence and does not end
\* in a grave accent.
Carriable(s) ==
    /\ Occurrences(Fence, s) = {}
    /\ (s = <<>> \/ s[Len(s)] # BT)

\* C3 as stated: extracting the canonical text of any artifact set gives the
\* artifact set back.
C3_RoundTripAny ==
    result # NotCalled => result = arts

\* C3 amended: the round trip holds for the artifact sets whose artifacts hold
\* no fence and do not end in a grave accent.
C3_RoundTripCarriable ==
    (result # NotCalled /\ \A c \in Categories : Carriable(arts[c])) => result = arts

\* Three non-empty carriable artifacts came back.
C3_Witness ==
    /\ result # NotCalled
    /\ arts # NoArts
    /\ \A c \in Categories : Carriable(arts[c]) /\ arts[c] # <<>>
    /\ arts.html # arts.css
    /\ result = arts

\* A prompt of white space only, or empty.
Blank(p) == \A i \in 1..Len(p) : p[i] \in WhiteSpace

\* What the claims expect of the extraction of a text.
ExpectedArtifacts(t) ==
    [c \in Categories |-> IF SegmentPresent(c, t) THEN FirstSegment(c, t) ELSE <<>>]

\* C4: whenever the Preview tab is shown the preview box is the iframe, and
\* its document holds, in this order and once each: the declaration and the
\* opening of the style block, the style artifact, the body's opening, the
\* markup artifact, the script opening, the behavior artifact, the script
\* closing, the link script, and the document's closing.
C4_PreviewDocument ==
    (showSplitLayout /\ activeTab = "Preview") =>
        /\ PreviewBox.tag = "iframe"
        /\ LET d  == PreviewBox.srcDoc
               nc == Len(code.css)
               nh == Len(code.html)
               nj == Len(code.js)
           IN  /\ Len(d) = 6 + nc + nh + nj
               /\ d[1] = DocOpen
               /\ SubSeq(d, 2, 1 + nc) = code.css
               /\ d[2 + nc] = StyleClose
               /\ SubSeq(d, 3 + nc, 2 + nc + nh) = code.html
               /\ d[3 + nc + nh] = ScriptOpen
               /\ SubSeq(d, 4 + nc + nh, 3 + nc + nh + nj) = code.js
               /\ d[4 + nc + nh + nj] = ScriptClose
               /\ d[5 + nc + nh + nj] = linkScript
               /\ d[6 + nc + nh + nj] = DocClose

\* The preview of three non-empty artifacts is shown.
C4_Witness ==
    /\ showSplitLayout
    /\ activeTab = "Preview"
    /\ PreviewBox.tag = "iframe"
    /\ code.html = Anchor \o <<"\n">>
    /\ code.css # <<>>
    /\ code.js # <<>>

\* C5 as stated: in no reachable state has the generated style, markup or
\* behavior read the host's state (its localStorage).
C5_HostStateUnread == hostReads = {}

\* C6 as stated: once the preview document has loaded, every a element of it
\* carries target and rel, whatever the behavior artifact did.
C6_LinksRewrittenOnLoad == framePhase = "loaded" => anchors.plain = 0

\* C7 as stated: extractCodeBlocks is only ever called with a string.
C7_ExtractorGetsString == extractArg = NoCall \/ IsString(extractArg)

\* C8: the held artifact set always has its three slots, each a string; after
\* a successful round it is the extraction of that round's response, slot by
\* slot, so a category the response lacks is empty whatever was held before.
C8_CodeWholeAndReplaced ==
    /\ IsArtifactSet(code)
    /\ (res.status = "fulfilled" /\ ~res.failed) => code = ExpectedArtifacts(res.data.code)

\* A round whose response had no html segment replaced a set that had markup.
C8_Witness ==
    /\ res.status = "fulfilled"
    /\ ~res.failed
    /\ codeBefore.html # <<>>
    /\ ~SegmentPresent("html", res.data.code)
    /\ code.html = <<>>
    /\ code.css # <<>>

\* C9: at most one request is in flight; from a state in which the prompt is
\* blank or loading is true no step issues a request or changes lastPrompt or
\* showSplitLayout, and code and loading change only as a request settles; a
\* settled response is that of the last submitted prompt.
C9_OneRequestInFlight ==
    /\ [](Len(requests) <= 1)
    /\ [](res # NoResult => res.prompt = lastPrompt)
    /\ [][(Blank(prompt) \/ loading) =>
              /\ Len(requests') <= Len(requests)
              /\ lastPrompt' = lastPrompt
              /\ showSplitLayout' = showSplitLayout
              /\ (Len(requests') = Len(requests) => code' = code /\ loading' = loading)]_vars

\* A second round has settled, with the response to its own prompt.
C9_Witness ==
    /\ res # NoResult
    /\ res.prompt = <<" ", "x", " ">>
    /\ lastPrompt = <<" ", "x", " ">>
    /\ codeBefore.html # <<>>
    /\ requests = <<>>

\* C10: a step that issues a request leaves loading true; a step that settles
\* one leaves loading false and the prompt empty, and leaves code as it was
\* when the round failed; code changes in no other step.
C10_LoadingBrackets ==
    /\ [][Len(requests') > Len(requests) => loading']_vars
    /\ [][Len(requests') < Len(requests) =>
              /\ ~loading'
              /\ prompt' = <<>>
              /\ (res'.failed => code' = code)]_vars
    /\ [][code' # code => Len(requests') < Len(requests)]_vars

\* A round failed inside extractCodeBlocks and left the artifacts held.
C10_Witness ==
    /\ res.status = "fulfilled"
    /\ res.failed
    /\ extractArg = Undefined
    /\ ~loading
    /\ prompt = <<>>
    /\ code = codeBefore
    /\ code.html # <<>>

====
